---- MODULE Spec2Model ----
(***************************************************************************)
(* The protocol bridge of server.ts: the per-document F* sessions          *)
(* (documentState), the query encoder (sendRequestForDocument), the        *)
(* response dispatcher (handleFStarResponseForDocument) and the document   *)
(* lifecycle handlers (onDidOpen / onDidChangeContent / onDidClose).       *)
(*                                                                         *)
(* Strings that cross a process boundary (the text written to a child's    *)
(* stdin, the chunks read from its stdout) are sequences of symbols; the   *)
(* symbol NL is the newline character.                                     *)
(***************************************************************************)
EXTENDS Integers, Sequences, FiniteSets, TLC

\* ------------------------------------------------------------ bounds
\* messages on the editor connection up to which open and change events are
\* followed (each of them sends two)
MaxOutbox == 4
\* lines the F* subprocesses print in a run
MaxEmit == 2
\* the largest line and the largest column of a position given to mkPosition
MaxLine == 4
MaxColumn == 2

\* ------------------------------------------------------------ values
URIs == {"file:///a.fst", "file:///b.fst"}

NL == "\n"

EscapedNL == "\\n"

\* document texts: one single-line text, one text holding a newline
Texts == { <<"let x">>, <<"let x", NL, "let y">> }

Undefined == "undefined"

\* what cp.spawn can do: return a running child, or throw synchronously
SpawnOutcomes == {"ok", "throws"}

\* the heads of the messages the modelled F* subprocesses print
EmittedHeads == {"{progress-ok", "{failure-1"}

\* the positions F* reports: lines count from 1, columns from 0
Positions == (1..MaxLine) \X (0..MaxColumn)

\* the longest chunk: every symbol MaxEmit lines can hold
MaxChunk == 3 * MaxEmit

VARIABLES
  documents,        \* TextDocuments manager: the Map uri -> text of the synced documents
  documentSettings, \* keys of the documentSettings Map
  documentState,    \* the Map uri -> IDEState [fstar_ide, last_query_id]
  children,         \* the ChildProcess objects spawned so far, in spawn order
  outbox,           \* what was sent on the editor connection, in order
  crashed,          \* an uncaught exception ended the server process
  nEmitted,         \* lines the F* subprocesses wrote to their stdout so far
  lastEvent,        \* the event handled last and the ordered trace of its effects
  lastChunk,        \* the chunk given to the last stdout 'data' callback
  lastRouted,       \* the routings handleOneResponseForDocument did for that chunk
  remap             \* positions given to mkPosition (args) and what it returned (results)

vars == <<documents, documentSettings, documentState, children, outbox, crashed, nEmitted, lastEvent, lastChunk, lastRouted, remap>>

\* ------------------------------------------------------------ maps
\* A JavaScript Map is a function on its set of keys.
MapHas(m, k) == k \in DOMAIN m

MapSet(m, k, v) == [x \in DOMAIN m \cup {k} |-> IF x = k THEN v ELSE m[x]]

MapDelete(m, k) == [x \in DOMAIN m \ {k} |-> m[x]]

EmptyMap == [x \in {} |-> 0]

\* ------------------------------------------------------------ strings

\* a stringify that copies the characters of a string value unescaped
JSONstringifyString_Raw(s) == s

\* JSON.stringify of a string value: a newline inside it becomes the two
\* characters backslash-n, so the result never holds a raw newline
JSONstringifyString(s) == [i \in 1..Len(s) |-> IF s[i] = NL THEN EscapedNL ELSE s[i]]

\* JSON.parse of such a string value
JSONparseString(s) == [i \in 1..Len(s) |-> IF s[i] = EscapedNL THEN NL ELSE s[i]]

\* '' + n
NumberToString(n) == ToString(n)

\* JSON.stringify(msg) of a query object: keys in insertion order query, args, query-id
JSONstringify(msg) == <<"{", msg.query>> \o JSONstringifyString(msg.text) \o <<msg.qid, "}">>

RECURSIVE SplitFrom(_, _, _)
SplitFrom(s, i, cur) == IF i > Len(s) THEN <<cur>> ELSE IF s[i] = NL THEN <<cur>> \o SplitFrom(s, i + 1, <<>>) ELSE SplitFrom(s, i + 1, Append(cur, s[i]))

\* String.prototype.split('\n'): the segments between newlines; a string
\* ending in a newline yields a last, empty segment
Split(s) == SplitFrom(s, 1, <<>>)

\* ------------------------------------------------------------ F* messages
\* The JSON text of a message of the F* ide protocol is two symbols: a head
\* that stands for the text up to the closing brace, and the closing brace.
\* Any other line (a lone head, a lone brace, other output) is not JSON.

IdeError1 == [message |-> "syntax error", ranges |-> << [beg |-> <<1, 4>>, end |-> <<1, 5>>] >>]

IdeError2 == [message |-> "type error", ranges |-> << [beg |-> <<2, 0>>, end |-> <<2, 3>>], [beg |-> <<7, 1>>, end |-> <<8, 0>>] >>]

JSONObjects ==
  [h \in {"{protocol-info"} |-> [kind |-> "protocol-info"]]
  @@ [h \in {"{progress-ok"} |-> [kind |-> "message", level |-> "progress", contents |-> [stage |-> "full-buffer-fragment-ok", ranges |-> [beg |-> <<3, 0>>, end |-> <<5, 2>>]]]]
  @@ [h \in {"{progress-started"} |-> [kind |-> "message", level |-> "progress", contents |-> [stage |-> "full-buffer-started"]]]
  @@ [h \in {"{info"} |-> [kind |-> "message", level |-> "info", contents |-> [stage |-> "none"]]]
  @@ [h \in {"{failure-0"} |-> [kind |-> "response", status |-> "failure", response |-> <<>>]]
  @@ [h \in {"{failure-1"} |-> [kind |-> "response", status |-> "failure", response |-> <<IdeError1>>]]
  @@ [h \in {"{failure-2"} |-> [kind |-> "response", status |-> "failure", response |-> <<IdeError1, IdeError2>>]]
  @@ [h \in {"{failure-none"} |-> [kind |-> "response", status |-> "failure"]]
  @@ [h \in {"{success"} |-> [kind |-> "response", status |-> "success", response |-> <<>>]]
  @@ [h \in {"{other"} |-> [kind |-> "other"]]

IsJSON(data) == Len(data) = 2 /\ data[1] \in DOMAIN JSONObjects /\ data[2] = "}"

\* JSON.parse(data), for a data that IsJSON; it throws a SyntaxError otherwise
JSONparse(data) == JSONObjects[data[1]]

\* r.key of a parsed object: undefined when the key is absent
Get(r, key) == IF key \in DOMAIN r THEN r[key] ELSE Undefined

\* ------------------------------------------------------------ handlers
\* The handlers act on the program state as one record st:
\*   documentState, documentSettings, children, outbox : as the variables
\*   trace : the effects of the running event, in order
\*   threw : the running handler raised an exception

ProgramState == [documentState |-> documentState, documentSettings |-> documentSettings, children |-> children, outbox |-> outbox, trace |-> <<>>, routed |-> <<>>, threw |-> FALSE]

\* connection.sendDiagnostics({uri, diagnostics})
sendDiagnostics(st, uri, diagnostics) == [st EXCEPT !.outbox = Append(@, [method |-> "textDocument/publishDiagnostics", uri |-> uri, diagnostics |-> diagnostics]), !.trace = Append(@, [e |-> "sendDiagnostics", uri |-> uri, n |-> Len(diagnostics)])]

sendStatusClear(st, uri) == [st EXCEPT !.outbox = Append(@, [method |-> "custom/statusClear", uri |-> uri]), !.trace = Append(@, [e |-> "sendStatusClear", uri |-> uri])]

\* fstar_ide.stdin.write(text)
stdinWrite(st, pid, text) == [st EXCEPT !.children[pid].stdin = @ \o text, !.trace = Append(@, [e |-> "stdin.write", pid |-> pid, text |-> text])]

\* a send that writes to the subprocess spawned first, whichever document it is of
sendRequestForDocument_FirstChild(st, uri, msg) ==
  LET called == [st EXCEPT !.trace = Append(@, [e |-> "sendRequestForDocument", uri |-> uri, query |-> msg.query, text |-> msg.text])]
  IN IF ~MapHas(st.documentState, uri) THEN called
     ELSE LET doc_state == st.documentState[uri]
              qid == doc_state.last_query_id
              stamped == [msg EXCEPT !.qid = NumberToString(qid + 1)]
              text == JSONstringify(stamped)
              st1 == [called EXCEPT !.documentState[uri].last_query_id = qid + 1, !.children[1].queries = Append(@, stamped)]
          IN stdinWrite(stdinWrite(st1, 1, text), 1, <<NL>>)

\* a send that stamps the counter's old value
sendRequestForDocument_StaleId(st, uri, msg) ==
  LET called == [st EXCEPT !.trace = Append(@, [e |-> "sendRequestForDocument", uri |-> uri, query |-> msg.query, text |-> msg.text])]
  IN IF ~MapHas(st.documentState, uri) THEN called
     ELSE LET doc_state == st.documentState[uri]
              qid == doc_state.last_query_id
              stamped == [msg EXCEPT !.qid = NumberToString(qid)]
              text == JSONstringify(stamped)
              st1 == [called EXCEPT !.documentState[uri].last_query_id = qid + 1, !.children[doc_state.fstar_ide].queries = Append(@, stamped)]
          IN stdinWrite(stdinWrite(st1, doc_state.fstar_ide, text), doc_state.fstar_ide, <<NL>>)

\* a send without the lookup's guard: reading last_query_id of undefined throws
sendRequestForDocument_NoGuard(st, uri, msg) ==
  LET called == [st EXCEPT !.trace = Append(@, [e |-> "sendRequestForDocument", uri |-> uri, query |-> msg.query, text |-> msg.text])]
  IN IF ~MapHas(st.documentState, uri) THEN [called EXCEPT !.threw = TRUE]
     ELSE LET doc_state == st.documentState[uri]
              qid == doc_state.last_query_id
              stamped == [msg EXCEPT !.qid = NumberToString(qid + 1)]
              text == JSONstringify(stamped)
              st1 == [called EXCEPT !.documentState[uri].last_query_id = qid + 1, !.children[doc_state.fstar_ide].queries = Append(@, stamped)]
          IN stdinWrite(stdinWrite(st1, doc_state.fstar_ide, text), doc_state.fstar_ide, <<NL>>)

sendRequestForDocument(st, uri, msg) ==
  LET called == [st EXCEPT !.trace = Append(@, [e |-> "sendRequestForDocument", uri |-> uri, query |-> msg.query, text |-> msg.text])]
  IN IF ~MapHas(st.documentState, uri) THEN called
     ELSE LET doc_state == st.documentState[uri]
              qid == doc_state.last_query_id
              stamped == [msg EXCEPT !.qid = NumberToString(qid + 1)]
              text == JSONstringify(stamped)
              st1 == [called EXCEPT !.documentState[uri].last_query_id = qid + 1, !.children[doc_state.fstar_ide].queries = Append(@, stamped)]
          IN stdinWrite(stdinWrite(st1, doc_state.fstar_ide, text), doc_state.fstar_ide, <<NL>>)

\* cp.spawn("fstar.exe", ["--ide", filename], {cwd}) returning a child
\* (received and routed record what its stdout listener was given and did,
\* answered the query-ids of the queries the subprocess has responded to)
spawn(uri) == [uri |-> uri, running |-> TRUE, killed |-> FALSE, stdin |-> <<>>, queries |-> <<>>, stdout |-> <<>>, received |-> <<>>, routed |-> <<>>, answered |-> <<>>]

\* an open handler that registers the session and sends no vfs-add
onDidOpen_NoVfsAdd(st, uri, text, outcome) ==
  IF outcome = "throws" THEN [st EXCEPT !.threw = TRUE]
  ELSE [st EXCEPT !.children = Append(@, spawn(uri)), !.documentState = MapSet(@, uri, [fstar_ide |-> Len(st.children) + 1, last_query_id |-> 0])]

onDidOpen(st, uri, text, outcome) ==
  IF outcome = "throws" THEN [st EXCEPT !.threw = TRUE]
  ELSE LET pid == Len(st.children) + 1
           st1 == [st EXCEPT !.children = Append(@, spawn(uri)), !.documentState = MapSet(@, uri, [fstar_ide |-> pid, last_query_id |-> 0])]
           vfs_add == [query |-> "vfs-add", text |-> text, qid |-> Undefined]
       IN sendRequestForDocument(st1, uri, vfs_add)

\* a validation that skips a text equal to the one the session was sent last
validateFStarDocument_Dedup(st, uri, text) ==
  LET sent == IF MapHas(st.documentState, uri) THEN st.children[st.documentState[uri].fstar_ide].queries ELSE <<>>
      st1 == sendDiagnostics(st, uri, <<>>)
      st2 == sendStatusClear(st1, uri)
      push_context == [query |-> "full-buffer", text |-> text, qid |-> Undefined]
  IN IF Len(sent) > 0 /\ sent[Len(sent)].text = text THEN st ELSE sendRequestForDocument(st2, uri, push_context)

validateFStarDocument(st, uri, text) ==
  LET st1 == sendDiagnostics(st, uri, <<>>)
      st2 == sendStatusClear(st1, uri)
      push_context == [query |-> "full-buffer", text |-> text, qid |-> Undefined]
  IN sendRequestForDocument(st2, uri, push_context)

onDidChangeContent(st, uri, text) == validateFStarDocument(st, uri, text)

onDidClose(st, uri) == [st EXCEPT !.documentSettings = @ \ {uri}]

\* a remap that shifts the column as well
mkPosition_ShiftsColumn(pos) == [line |-> pos[1] - 1, character |-> pos[2] - 1]

mkPosition(pos) == [line |-> pos[1] - 1, character |-> pos[2]]

sendStatusOk(st, msg) == [st EXCEPT !.outbox = Append(@, [method |-> "custom/statusOk", uri |-> msg.uri, ranges |-> msg.ranges]), !.trace = Append(@, [e |-> "sendStatusOk", uri |-> msg.uri])]

handleIdeProtocolInfo(st, uri, r) == st

\* a progress handler that passes the F* positions on as they are
handleIdeProgress_NoRemap(st, uri, contents) ==
  IF Get(contents, "stage") = "full-buffer-fragment-ok"
  THEN LET rng == contents.ranges
           ok_range == [start |-> [line |-> rng.beg[1], character |-> rng.beg[2]], end |-> [line |-> rng.end[1], character |-> rng.end[2]]]
       IN sendStatusOk(st, [uri |-> uri, ranges |-> <<ok_range>>])
  ELSE st

handleIdeProgress(st, uri, contents) ==
  IF Get(contents, "stage") = "full-buffer-fragment-ok"
  THEN LET rng == contents.ranges
           ok_range == [start |-> mkPosition(rng.beg), end |-> mkPosition(rng.end)]
       IN sendStatusOk(st, [uri |-> uri, ranges |-> <<ok_range>>])
  ELSE st

\* a failure handler that takes each entry's last range
RECURSIVE handleIdeFailureFrom_LastRange(_, _, _, _)
handleIdeFailureFrom_LastRange(st, uri, response, i) ==
  IF i > Len(response) THEN st
  ELSE LET err == response[i]
           rng == err.ranges[Len(err.ranges)]
           diag == [severity |-> "Error", range |-> [start |-> mkPosition(rng.beg), end |-> mkPosition(rng.end)], message |-> err.message]
       IN handleIdeFailureFrom_LastRange(sendDiagnostics(st, uri, <<diag>>), uri, response, i + 1)

RECURSIVE handleIdeFailureFrom(_, _, _, _)
handleIdeFailureFrom(st, uri, response, i) ==
  IF i > Len(response) THEN st
  ELSE LET err == response[i]
           rng == err.ranges[1]
           diag == [severity |-> "Error", range |-> [start |-> mkPosition(rng.beg), end |-> mkPosition(rng.end)], message |-> err.message]
       IN handleIdeFailureFrom(sendDiagnostics(st, uri, <<diag>>), uri, response, i + 1)

\* a failure handler that also asks the session to check the buffer again
handleIdeFailure_Resend(st, uri, response) == sendRequestForDocument(handleIdeFailureFrom(st, uri, response, 1), uri, [query |-> "full-buffer", text |-> <<>>, qid |-> Undefined])

\* a failure handler that publishes nothing
handleIdeFailure_Silent(st, uri, response) == st

\* response.forEach(err => ...)
handleIdeFailure(st, uri, response) == handleIdeFailureFrom(st, uri, response, 1)

\* a success handler that clears the document's diagnostics
handleIdeSuccess_ClearsDiagnostics(st, uri, response) == sendDiagnostics(st, uri, <<>>)

handleIdeSuccess(st, uri, response) == st

Routed(st, handler, r) == [st EXCEPT !.routed = Append(@, [handler |-> handler, r |-> r])]

\* the routing of a parsed message by its kind
routeByKind(st, uri, r) ==
  IF Get(r, "kind") = "protocol-info" THEN handleIdeProtocolInfo(Routed(st, "handleIdeProtocolInfo", r), uri, r)
  ELSE IF Get(r, "kind") = "message" /\ Get(r, "level") = "progress" THEN handleIdeProgress(Routed(st, "handleIdeProgress", r), uri, r.contents)
  ELSE IF Get(r, "kind") = "response" /\ Get(r, "status") = "failure"
       THEN IF "response" \notin DOMAIN r THEN Routed(st, "none", r)
            ELSE handleIdeFailure(Routed(st, "handleIdeFailure", r), uri, r.response)
  ELSE IF Get(r, "kind") = "response" /\ Get(r, "status") = "success" THEN handleIdeSuccess(Routed(st, "handleIdeSuccess", r), uri, Get(r, "response"))
  ELSE Routed(st, "unhandled", r)

\* a handler without the empty-line return: JSON.parse("") throws
handleOneResponseForDocument_NoEmptyCheck(st, uri, data) ==
  IF ~IsJSON(data) THEN [st EXCEPT !.threw = TRUE]
  ELSE routeByKind(st, uri, JSONparse(data))

handleOneResponseForDocument(st, uri, data) ==
  IF data = <<>> THEN st
  ELSE IF ~IsJSON(data) THEN [st EXCEPT !.threw = TRUE]
  ELSE routeByKind(st, uri, JSONparse(data))

\* lines.forEach(line => ...): an exception thrown by the callback ends the loop
RECURSIVE forEachLine(_, _, _, _)
forEachLine(st, uri, lines, i) ==
  IF i > Len(lines) \/ st.threw THEN st
  ELSE forEachLine(handleOneResponseForDocument(st, uri, lines[i]), uri, lines, i + 1)

handleFStarResponseForDocument(st, uri, data) == forEachLine(st, uri, Split(data), 1)

\* ------------------------------------------------------------ actions

\* an open or a change is followed while its two messages fit the bound
FitsOutbox == Len(outbox) + 2 <= MaxOutbox

Commit(st, ev) ==
  /\ documentState' = st.documentState
  /\ documentSettings' = st.documentSettings
  /\ children' = st.children
  /\ outbox' = st.outbox
  /\ lastEvent' = [ev EXCEPT !.trace = st.trace]

Event(op, uri, text) == [op |-> op, uri |-> uri, text |-> text, prevText |-> IF MapHas(documents, uri) THEN documents[uri] ELSE <<>>, pid |-> 0, trace |-> <<>>, threw |-> {}]

\* the handlers of an event that raised an exception
Threw(st, handler) == IF st.threw THEN {handler} ELSE {}

Init ==
  /\ documents = EmptyMap
  /\ documentSettings = {}
  /\ documentState = EmptyMap
  /\ children = <<>>
  /\ outbox = <<>>
  /\ crashed = FALSE
  /\ nEmitted = 0
  /\ lastEvent = [op |-> "init", uri |-> Undefined, text |-> <<>>, prevText |-> <<>>, pid |-> 0, trace |-> <<>>, threw |-> {}]
  /\ lastChunk = <<>>
  /\ lastRouted = <<>>
  /\ remap = [args |-> <<>>, results |-> <<>>]

\* textDocument/didOpen: the document manager records the document, then fires
\* onDidOpen and onDidChangeContent, one after the other
DidOpenTextDocument(uri, text, outcome) ==
  /\ ~crashed
  /\ ~MapHas(documents, uri)
  /\ FitsOutbox
  /\ documents' = MapSet(documents, uri, text)
  /\ LET opened == onDidOpen(ProgramState, uri, text, outcome)
         st == onDidChangeContent([opened EXCEPT !.threw = FALSE], uri, text)
     IN Commit(st, [Event("open", uri, text) EXCEPT !.threw = Threw(opened, "onDidOpen") \cup Threw(st, "onDidChangeContent")])
  /\ UNCHANGED <<crashed, nEmitted, lastChunk, lastRouted, remap>>

\* textDocument/didChange of a synced document
DidChangeTextDocument(uri, text) ==
  /\ ~crashed
  /\ MapHas(documents, uri)
  /\ FitsOutbox
  /\ documents' = MapSet(documents, uri, text)
  /\ LET st == onDidChangeContent(ProgramState, uri, text)
     IN Commit(st, [Event("change", uri, text) EXCEPT !.threw = Threw(st, "onDidChangeContent")])
  /\ UNCHANGED <<crashed, nEmitted, lastChunk, lastRouted, remap>>

\* textDocument/didClose of a synced document
DidCloseTextDocument(uri) ==
  /\ ~crashed
  /\ MapHas(documents, uri)
  /\ documents' = MapDelete(documents, uri)
  /\ LET st == onDidClose(ProgramState, uri)
     IN Commit(st, [Event("close", uri, <<>>) EXCEPT !.threw = Threw(st, "onDidClose")])
  /\ UNCHANGED <<crashed, nEmitted, lastChunk, lastRouted, remap>>

\* the lines an F* subprocess may print: the messages of JSONObjects, and a
\* line of other output
OutputLines == {<<h, "}">> : h \in EmittedHeads} \cup {<<"#">>}

\* the F* subprocess of children[pid] prints one line on its stdout
FStarOutput(pid, line) ==
  /\ ~crashed
  /\ pid \in 1..Len(children)
  /\ children[pid].running
  /\ nEmitted < MaxEmit
  /\ nEmitted' = nEmitted + 1
  /\ children' = [children EXCEPT ![pid].stdout = @ \o line \o <<NL>>]
  /\ UNCHANGED <<documents, documentSettings, documentState, outbox, crashed, lastEvent, lastChunk, lastRouted, remap>>

\* fstar_ide.stdout 'data': the first n pending symbols arrive as one chunk.
\* An exception thrown by the listener is thrown out of the stream's emit: an
\* uncaught exception, which ends the server process.
StdoutData(pid, n) ==
  /\ ~crashed
  /\ pid \in 1..Len(children)
  /\ n \in 1..Len(children[pid].stdout)
  /\ LET data == SubSeq(children[pid].stdout, 1, n)
         read == [ProgramState EXCEPT !.children[pid].stdout = SubSeq(@, n + 1, Len(@)), !.children[pid].received = @ \o data]
         handled == handleFStarResponseForDocument(read, children[pid].uri, data)
         st == [handled EXCEPT !.children[pid].routed = @ \o handled.routed]
     IN /\ Commit(st, [Event("data", children[pid].uri, <<>>) EXCEPT !.pid = pid, !.threw = Threw(st, "data")])
        /\ lastChunk' = data
        /\ lastRouted' = st.routed
        /\ crashed' = st.threw
  /\ UNCHANGED <<documents, nEmitted, remap>>

Next ==
  \/ \E uri \in URIs, text \in Texts, outcome \in SpawnOutcomes : DidOpenTextDocument(uri, text, outcome)
  \/ \E uri \in URIs, text \in Texts : DidChangeTextDocument(uri, text)
  \/ \E uri \in URIs : DidCloseTextDocument(uri)
  \/ \E pid \in 1..MaxOutbox, line \in OutputLines : FStarOutput(pid, line)
  \/ \E pid \in 1..MaxOutbox, n \in 1..MaxChunk : StdoutData(pid, n)

Spec == Init /\ [][Next]_vars

\* ------------------------------------------------------------ mkPosition alone
\* The coordinate remap as a function: two positions are drawn, mkPosition is
\* applied to each.

InitPosition ==
  /\ documents = EmptyMap
  /\ documentSettings = {}
  /\ documentState = EmptyMap
  /\ children = <<>>
  /\ outbox = <<>>
  /\ crashed = FALSE
  /\ nEmitted = 0
  /\ lastEvent = [op |-> "init", uri |-> Undefined, text |-> <<>>, prevText |-> <<>>, pid |-> 0, trace |-> <<>>, threw |-> {}]
  /\ lastChunk = <<>>
  /\ lastRouted = <<>>
  /\ \E p \in Positions, q \in Positions : remap = [args |-> <<p, q>>, results |-> <<>>]

ApplyMkPosition ==
  /\ remap.results = <<>>
  /\ remap' = [remap EXCEPT !.results = <<mkPosition(remap.args[1]), mkPosition(remap.args[2])>>]
  /\ UNCHANGED <<documents, documentSettings, documentState, children, outbox, crashed, nEmitted, lastEvent, lastChunk, lastRouted>>

NextPosition == ApplyMkPosition

SpecPosition == InitPosition /\ [][NextPosition]_vars

\* ------------------------------------------------------------ the dispatcher alone
\* The response dispatcher under every message of JSONObjects: documents are
\* opened (their spawn succeeds), their subprocesses print any message, and the
\* pipe delivers the output in chunks of any length.

AllOutputLines == {<<h, "}">> : h \in DOMAIN JSONObjects}

NextDispatch ==
  \/ \E uri \in URIs : DidOpenTextDocument(uri, <<"let x">>, "ok")
  \/ \E pid \in 1..MaxOutbox, line \in AllOutputLines : FStarOutput(pid, line)
  \/ \E pid \in 1..MaxOutbox, n \in 1..MaxChunk : StdoutData(pid, n)

SpecDispatch == Init /\ [][NextDispatch]_vars

\* ------------------------------------------------------------ reading a child's stdin back

\* the lines a subprocess reads from what was written to its stdin: the
\* newline-terminated segments (what follows the last newline is not yet a line)
StdinLines(pid) == LET segs == Split(children[pid].stdin) IN SubSeq(segs, 1, Len(segs) - 1)

StdinTail(pid) == LET segs == Split(children[pid].stdin) IN segs[Len(segs)]

\* the query a subprocess decodes from one line
DecodeQuery(line) == [query |-> line[2], text |-> JSONparseString(SubSeq(line, 3, Len(line) - 2)), qid |-> line[Len(line) - 1]]

IdStrings == <<"1", "2", "3", "4", "5", "6", "7", "8", "9">>

Pids == 1..Len(children)

\* ------------------------------------------------------------ F* answering its queries
\* The F* subprocess as the ide protocol describes it: it reads the queries on
\* its stdin in order and responds to a full-buffer query with a response that
\* names the query's id; here every check fails with one error. The bridge
\* does not look at the id, so the message printed is that of "{failure-1".

\* the full-buffer queries on the stdin of children[pid] it has not answered
Unanswered(pid) == {k \in 1..Len(StdinLines(pid)) : DecodeQuery(StdinLines(pid)[k]).query = "full-buffer" /\ \A j \in 1..Len(children[pid].answered) : children[pid].answered[j] # DecodeQuery(StdinLines(pid)[k]).qid}

FStarAnswer(pid) ==
  /\ ~crashed
  /\ pid \in 1..Len(children)
  /\ children[pid].running
  /\ nEmitted < MaxEmit
  /\ Unanswered(pid) # {}
  /\ LET k == CHOOSE k \in Unanswered(pid) : \A j \in Unanswered(pid) : k <= j
     IN children' = [children EXCEPT ![pid].stdout = @ \o <<"{failure-1", "}", NL>>, ![pid].answered = Append(@, DecodeQuery(StdinLines(pid)[k]).qid)]
  /\ nEmitted' = nEmitted + 1
  /\ UNCHANGED <<documents, documentSettings, documentState, outbox, crashed, lastEvent, lastChunk, lastRouted, remap>>

NextStale ==
  \/ \E uri \in URIs, text \in Texts : DidOpenTextDocument(uri, text, "ok")
  \/ \E uri \in URIs, text \in Texts : DidChangeTextDocument(uri, text)
  \/ \E pid \in 1..MaxOutbox : FStarAnswer(pid)
  \/ \E pid \in 1..MaxOutbox, n \in 1..MaxChunk : StdoutData(pid, n)

SpecStale == Init /\ [][NextStale]_vars

\* ------------------------------------------------------------ C1

\* C1: on every session's input the query-ids are "1", "2", "3", ... in order
\* (strictly increasing, no gap, starting at 1), and the registered session's
\* last_query_id is the id of the last query written to its subprocess (0 when
\* none was written).
C1_QueryIdsGapless ==
  /\ \A pid \in Pids : LET lines == StdinLines(pid) IN \A i \in 1..Len(lines) : DecodeQuery(lines[i]).qid = IdStrings[i]
  /\ \A uri \in DOMAIN documentState : documentState[uri].last_query_id = Len(StdinLines(documentState[uri].fstar_ide))

\* a session that stamped three queries
C1_Witness == \E uri \in DOMAIN documentState : documentState[uri].last_query_id = 3 /\ Len(StdinLines(documentState[uri].fstar_ide)) = 3

\* ------------------------------------------------------------ C2

\* C2: once a document is closed, the subprocess spawned for its URI is not
\* left running: it has been asked to terminate.
C2_ClosedDocumentSubprocessTerminated ==
  \A pid \in Pids : ~MapHas(documents, children[pid].uri) => (~children[pid].running \/ children[pid].killed)

\* ------------------------------------------------------------ C3

LiveSubprocesses(uri) == {pid \in Pids : children[pid].uri = uri /\ children[pid].running /\ ~children[pid].killed}

\* C3: at most one active session per URI: a URI never has two live
\* subprocesses, a re-open replaces the earlier one.
C3_AtMostOneLiveSubprocessPerUri == \A uri \in URIs : Cardinality(LiveSubprocesses(uri)) <= 1

\* ------------------------------------------------------------ C4

\* C4: close(uri) removes the registry entry: a URI whose document is closed
\* (and not re-opened) has no entry in documentState.
C4_ClosedDocumentHasNoSession == \A uri \in URIs : ~MapHas(documents, uri) => ~MapHas(documentState, uri)

\* ------------------------------------------------------------ C5

\* a step in which validateFStarDocument ran for uri while uri had no session:
\* uri was not registered before the step and the step spawned no child
SendWithoutSession(uri) ==
  /\ lastEvent'.op \in {"open", "change"}
  /\ lastEvent'.uri = uri
  /\ Len(outbox') > Len(outbox)
  /\ ~MapHas(documentState, uri)
  /\ Len(children') = Len(children)

\* C5: sendRequestForDocument for a URI with no session is a silent no-op:
\* nothing is written to any subprocess, no session or counter changes, and the
\* handler raises no error.
C5_SendWithoutSessionIsNoOp ==
  [][\A uri \in URIs : SendWithoutSession(uri) =>
        /\ children' = children
        /\ documentState' = documentState
        /\ "onDidChangeContent" \notin lastEvent'.threw
        /\ crashed' = crashed
        /\ \E i \in 1..Len(lastEvent'.trace) : lastEvent'.trace[i].e = "sendRequestForDocument" /\ lastEvent'.trace[i].uri = uri
        /\ \A i \in 1..Len(lastEvent'.trace) : lastEvent'.trace[i].e # "stdin.write"]_vars

\* the content change of a document that has no session (its spawn threw) was
\* handled while another document has a session
C5_Witness ==
  /\ lastEvent.op \in {"open", "change"}
  /\ ~MapHas(documentState, lastEvent.uri)
  /\ Len(children) > 0
  /\ \E i \in 1..Len(lastEvent.trace) : lastEvent.trace[i].e = "sendRequestForDocument"

\* ------------------------------------------------------------ C6

\* C6: the lines on a subprocess's input are exactly the queries sent to it, in
\* call order, each JSON text followed at once by its own newline: every
\* line decodes to the query of the same position and nothing is left after
\* the last newline.
C6_StdinIsTheSendsInOrder ==
  \A pid \in Pids :
    LET lines == StdinLines(pid)
    IN /\ Len(lines) = Len(children[pid].queries)
       /\ StdinTail(pid) = <<>>
       /\ \A i \in 1..Len(children[pid].queries) : DecodeQuery(lines[i]) = children[pid].queries[i]

\* three queries on one input, one of them carrying a text with a newline
C6_Witness ==
  \E pid \in Pids :
    /\ Len(children[pid].queries) = 3
    /\ \E i \in 1..3 : \E k \in 1..Len(children[pid].queries[i].text) : children[pid].queries[i].text[k] = NL

\* ------------------------------------------------------------ C7

\* C7: a document open registers a session whose input starts with a vfs-add
\* query with query-id "1", followed by the full-buffer query with query-id "2"
\* of the content change that comes with the open; every later line is a
\* full-buffer query, so none precedes the vfs-add.
C7_OpenSendsVfsAddThenFullBuffer ==
  /\ \A pid \in Pids :
       LET lines == StdinLines(pid)
       IN /\ Len(lines) >= 2
          /\ DecodeQuery(lines[1]).query = "vfs-add" /\ DecodeQuery(lines[1]).qid = "1"
          /\ DecodeQuery(lines[2]).query = "full-buffer" /\ DecodeQuery(lines[2]).qid = "2"
          /\ \A i \in 2..Len(lines) : DecodeQuery(lines[i]).query = "full-buffer"
  /\ (lastEvent.op = "open" /\ "onDidOpen" \notin lastEvent.threw) =>
       /\ MapHas(documentState, lastEvent.uri)
       /\ documentState[lastEvent.uri] = [fstar_ide |-> Len(children), last_query_id |-> 2]
       /\ children[Len(children)].uri = lastEvent.uri
       /\ LET lines == StdinLines(Len(children)) IN DecodeQuery(lines[1]).text = lastEvent.text /\ DecodeQuery(lines[2]).text = lastEvent.text

\* a URI was re-opened: its second session starts again with vfs-add "1"
C7_Witness ==
  /\ lastEvent.op = "open"
  /\ Len(children) = 2
  /\ children[1].uri = children[2].uri
  /\ documentState[lastEvent.uri].fstar_ide = 2

\* ------------------------------------------------------------ C8

\* the position of the diagnostics publish in the trace of the last event
ClearAt == CHOOSE k \in 1..Len(lastEvent.trace) : lastEvent.trace[k].e = "sendDiagnostics"

\* C8: every content change (the one of an open included, and a repeat with the
\* same text) publishes an empty diagnostics list for the document, then sends
\* statusClear for it, then makes one full-buffer send with the current text;
\* with a session registered the query is the next line written to it.
C8_ChangeClearsThenChecks ==
  lastEvent.op \in {"open", "change"} =>
    LET t == lastEvent.trace
        uri == lastEvent.uri
    IN /\ Cardinality({k \in 1..Len(t) : t[k].e = "sendDiagnostics"}) = 1
       /\ Len(t) >= ClearAt + 2
       /\ t[ClearAt] = [e |-> "sendDiagnostics", uri |-> uri, n |-> 0]
       /\ t[ClearAt + 1] = [e |-> "sendStatusClear", uri |-> uri]
       /\ t[ClearAt + 2] = [e |-> "sendRequestForDocument", uri |-> uri, query |-> "full-buffer", text |-> lastEvent.text]
       /\ \A k \in 1..Len(t) : t[k].e = "sendRequestForDocument" /\ t[k].query = "full-buffer" => k = ClearAt + 2
       /\ MapHas(documentState, uri) =>
            /\ Len(t) = ClearAt + 4
            /\ t[ClearAt + 3].e = "stdin.write" /\ t[ClearAt + 3].pid = documentState[uri].fstar_ide
            /\ t[ClearAt + 4].e = "stdin.write" /\ t[ClearAt + 4].text = <<NL>>
            /\ LET q == DecodeQuery(t[ClearAt + 3].text) IN q.query = "full-buffer" /\ q.text = lastEvent.text /\ q.qid = IdStrings[documentState[uri].last_query_id]

\* a change that repeats the text the document already had, with a session
C8_Witness ==
  /\ lastEvent.op = "change"
  /\ lastEvent.text = lastEvent.prevText
  /\ MapHas(documentState, lastEvent.uri)
  /\ documentState[lastEvent.uri].last_query_id = 3

\* ------------------------------------------------------------ C9

\* a chunk that is N newline-terminated JSON texts and nothing else
RECURSIVE IsJSONLines(_)
IsJSONLines(chunk) == chunk = <<>> \/ (Len(chunk) >= 3 /\ IsJSON(SubSeq(chunk, 1, 2)) /\ chunk[3] = NL /\ IsJSONLines(SubSeq(chunk, 4, Len(chunk))))

\* the messages of such a chunk, in line order
RECURSIVE MessagesOf(_)
MessagesOf(chunk) == IF chunk = <<>> THEN <<>> ELSE <<JSONObjects[chunk[1]]>> \o MessagesOf(SubSeq(chunk, 4, Len(chunk)))

RoutedMessages == [i \in 1..Len(lastRouted) |-> lastRouted[i].r]

\* C9: a chunk of N newline-terminated JSON lines is routed N times, once per
\* line and in line order; the empty segment after the last newline is not
\* routed and raises nothing.
C9_OneRoutingPerLine ==
  (lastEvent.op = "data" /\ IsJSONLines(lastChunk)) =>
     /\ Len(lastRouted) = Len(lastChunk) \div 3
     /\ RoutedMessages = MessagesOf(lastChunk)
     /\ lastEvent.threw = {}
     /\ ~crashed

\* a chunk of two different JSON lines was handled
C9_Witness ==
  /\ lastEvent.op = "data"
  /\ IsJSONLines(lastChunk)
  /\ Len(lastChunk) = 6
  /\ lastChunk[1] # lastChunk[4]
  /\ Len(lastRouted) = 2

\* ------------------------------------------------------------ C10

\* the JSON lines among the segments of a chunk, parsed, in order
ValidMessagesOf(chunk) == LET ok == SelectSeq(Split(chunk), IsJSON) IN [i \in 1..Len(ok) |-> JSONparse(ok[i])]

\* C10: a line that is not valid JSON is discarded without ending the process,
\* and every valid line of the chunk, the later ones included, is still routed
\* (stated for chunks of whole lines, those that end with a newline).
C10_MalformedLineIsContained ==
  (lastEvent.op = "data" /\ lastChunk[Len(lastChunk)] = NL) => (~crashed /\ RoutedMessages = ValidMessagesOf(lastChunk))

\* ------------------------------------------------------------ C11

\* everything a subprocess printed so far: what its listener was given, then
\* what is still in the pipe
Printed(pid) == children[pid].received \o children[pid].stdout

\* the newline-terminated JSON lines at the head of a stream of JSON lines
WholeLines(stream) == SubSeq(stream, 1, 3 * (Len(stream) \div 3))

RoutedBy(pid) == [i \in 1..Len(children[pid].routed) |-> children[pid].routed[i].r]

\* C11: routing does not depend on how the stdout stream is cut into chunks:
\* when every subprocess printed JSON lines only, each session has routed
\* exactly the messages of the whole lines delivered to it so far, in order (a
\* line cut by a chunk boundary is routed once, when its newline arrives), and
\* no delivery ended the server.
C11_RoutingIndependentOfChunking ==
  (\A pid \in Pids : IsJSONLines(Printed(pid))) =>
     /\ ~crashed
     /\ \A pid \in Pids : RoutedBy(pid) = MessagesOf(WholeLines(children[pid].received))


\* ------------------------------------------------------------ C12

\* what the last event sent on the editor connection, in order (each effect of
\* a 'data' event is one message)
LastSent == SubSeq(outbox, Len(outbox) - Len(lastEvent.trace) + 1, Len(outbox))

IsPublish(m) == m.method = "textDocument/publishDiagnostics"

\* the diagnostic the claim describes for one entry of the error array: error
\* severity, the entry's first range with 0-based lines, the entry's message
FirstRangeDiagnostic(err) ==
  LET first == err.ranges[1]
  IN [severity |-> "Error",
      range |-> [start |-> [line |-> first.beg[1] - 1, character |-> first.beg[2]], end |-> [line |-> first.end[1] - 1, character |-> first.end[2]]],
      message |-> err.message]

IsFailureWithPayload(r) == Get(r, "kind") = "response" /\ Get(r, "status") = "failure" /\ "response" \in DOMAIN r

\* the publications the claim describes for a sequence of messages: for every
\* failure response, one diagnostic per entry of its error array, in order
RECURSIVE ExpectedPublishes(_, _)
ExpectedPublishes(uri, msgs) ==
  IF msgs = <<>> THEN <<>>
  ELSE LET r == Head(msgs)
           mine == IF IsFailureWithPayload(r) THEN [i \in 1..Len(r.response) |-> [method |-> "textDocument/publishDiagnostics", uri |-> uri, diagnostics |-> <<FirstRangeDiagnostic(r.response[i])>>]] ELSE <<>>
       IN mine \o ExpectedPublishes(uri, Tail(msgs))

\* C12: a failure response with an error array of length K publishes exactly K
\* error-severity diagnostics for the URI of the document the subprocess was
\* spawned for, in array order, the i-th built from only the first range of the
\* i-th entry (lines reduced by 1) and that entry's message; each is sent as a
\* publication of its own.
C12_FailurePublishesOneDiagnosticPerError ==
  (lastEvent.op = "data" /\ IsJSONLines(lastChunk)) =>
     SelectSeq(LastSent, IsPublish) = ExpectedPublishes(lastEvent.uri, MessagesOf(lastChunk))

\* a failure with two errors, the second of them with two ranges, was handled
C12_Witness ==
  /\ lastEvent.op = "data"
  /\ lastChunk = <<"{failure-2", "}", NL>>
  /\ Len(SelectSeq(LastSent, IsPublish)) = 2
  /\ LastSent[2].diagnostics[1].message = "type error"

\* ------------------------------------------------------------ C13

\* C13: mkPosition maps every position (line, column) with line >= 1 to
\* (line - 1, column): the column is unchanged, the result line is >= 0, and
\* two positions of the same column and different lines have different results.
C13_RemapShiftsLineOnly ==
  remap.results # <<>> =>
    /\ \A i \in 1..2 : LET pos == remap.args[i] IN pos[1] >= 1 =>
         /\ remap.results[i] = [line |-> pos[1] - 1, character |-> pos[2]]
         /\ remap.results[i].line >= 0
         /\ remap.results[i].character = pos[2]
    /\ (remap.args[1][2] = remap.args[2][2] /\ remap.args[1][1] # remap.args[2][1]) => remap.results[1] # remap.results[2]

\* the first line and the last line, at the same non-zero column, were remapped
C13_Witness ==
  /\ remap.results # <<>>
  /\ remap.args[1] = <<1, MaxColumn>>
  /\ remap.args[2] = <<MaxLine, MaxColumn>>
  /\ remap.results[1].line = 0

\* ------------------------------------------------------------ C14

\* the positions in the trace of the last event at which diagnostics (one or
\* more) were published for uri
DiagnosticsAt(uri) == {k \in 1..Len(lastEvent.trace) : lastEvent.trace[k].e = "sendDiagnostics" /\ lastEvent.trace[k].uri = uri /\ lastEvent.trace[k].n > 0}

\* C14: an open whose spawn failed surfaces the failure as exactly one
\* diagnostic on the document, and leaves no half-open session: the URI is
\* registered only with a subprocess that runs.
C14_SpawnFailureSurfaced ==
  (lastEvent.op = "open" /\ "onDidOpen" \in lastEvent.threw) =>
     /\ Cardinality(DiagnosticsAt(lastEvent.uri)) = 1
     /\ \A k \in DiagnosticsAt(lastEvent.uri) : lastEvent.trace[k].n = 1
     /\ MapHas(documentState, lastEvent.uri) => children[documentState[lastEvent.uri].fstar_ide].running

\* ------------------------------------------------------------ C15

IsProgress(r) == Get(r, "kind") = "message" /\ Get(r, "level") = "progress"

\* the notification the claim describes for a progress message of stage
\* full-buffer-fragment-ok
StatusOkOf(uri, contents) ==
  [method |-> "custom/statusOk", uri |-> uri,
   ranges |-> << [start |-> [line |-> contents.ranges.beg[1] - 1, character |-> contents.ranges.beg[2]],
                  end |-> [line |-> contents.ranges.end[1] - 1, character |-> contents.ranges.end[2]]] >>]

\* what the claim describes for a sequence of progress messages
RECURSIVE ExpectedStatusOk(_, _)
ExpectedStatusOk(uri, msgs) ==
  IF msgs = <<>> THEN <<>>
  ELSE (IF Head(msgs).contents.stage = "full-buffer-fragment-ok" THEN <<StatusOkOf(uri, Head(msgs).contents)>> ELSE <<>>) \o ExpectedStatusOk(uri, Tail(msgs))

\* C15: a progress message emits a statusOk notification iff its stage is
\* full-buffer-fragment-ok: a chunk of progress messages sends one notification
\* per message of that stage and nothing else; the notification carries the
\* document URI and one range, beg and end with the line reduced by 1 and the
\* column unchanged (beg=[3,0], end=[5,2] gives start=(2,0), end=(4,2)).
C15_ProgressEmitsStatusOkIffFragmentOk ==
  (lastEvent.op = "data" /\ IsJSONLines(lastChunk) /\ \A i \in 1..Len(MessagesOf(lastChunk)) : IsProgress(MessagesOf(lastChunk)[i])) =>
     /\ LastSent = ExpectedStatusOk(lastEvent.uri, MessagesOf(lastChunk))
     /\ lastChunk = <<"{progress-ok", "}", NL>> =>
          LastSent = << [method |-> "custom/statusOk", uri |-> lastEvent.uri, ranges |-> << [start |-> [line |-> 2, character |-> 0], end |-> [line |-> 4, character |-> 2]] >>] >>

\* a chunk of two progress messages, the first of another stage, the second
\* of stage full-buffer-fragment-ok, was handled and sent one notification
C15_Witness ==
  /\ lastEvent.op = "data"
  /\ lastChunk = <<"{progress-started", "}", NL, "{progress-ok", "}", NL>>
  /\ Len(LastSent) = 1
  /\ LastSent[1].method = "custom/statusOk"

\* ------------------------------------------------------------ C16

\* the messages the claim lists as having no effect: everything but a
\* progress message and a failure response that carries a payload
IsSilentKind(r) == ~IsProgress(r) /\ ~IsFailureWithPayload(r)

\* C16: routing emits an editor-facing effect only for progress messages and
\* failure responses with a payload: a chunk made of protocol-info, success
\* responses, failure responses without a payload, messages of another level
\* and messages of another kind sends no diagnostic and no notification, and
\* in any chunk of whole lines every message sent comes from a progress message
\* (statusOk) or from a failure response with a payload (diagnostics).
C16_OnlyProgressAndFailureHaveEffects ==
  (lastEvent.op = "data" /\ IsJSONLines(lastChunk)) =>
     LET msgs == MessagesOf(lastChunk)
     IN /\ (\A i \in 1..Len(msgs) : IsSilentKind(msgs[i])) => (LastSent = <<>> /\ lastEvent.trace = <<>>)
        /\ Len(LastSent) = Len(ExpectedPublishes(lastEvent.uri, msgs)) + Len(ExpectedStatusOk(lastEvent.uri, SelectSeq(msgs, IsProgress)))

\* a failure response without a payload and a message of another kind were
\* routed from one chunk, which sent nothing
C16_Witness ==
  /\ lastEvent.op = "data"
  /\ lastChunk = <<"{failure-none", "}", NL, "{other", "}", NL>>
  /\ LastSent = <<>>
  /\ Len(lastRouted) = 2

\* ------------------------------------------------------------ C17

\* the last event handled one whole failure line that answers a query older
\* than the last one written to the subprocess
StaleFailureHandled ==
  /\ lastEvent.op = "data"
  /\ lastChunk = <<"{failure-1", "}", NL>>
  /\ LET c == children[lastEvent.pid]
         line == Len(c.received) \div 3
     IN /\ Len(c.received) = 3 * line
        /\ line <= Len(c.answered)
        /\ c.answered[line] # IdStrings[Len(StdinLines(lastEvent.pid))]

\* C17: responses are not matched to the query that caused them: a failure
\* response that answers a superseded query is published as a diagnostic for
\* the document like any other.
C17_StaleFailureIsPublished ==
  StaleFailureHandled =>
    LastSent = << [method |-> "textDocument/publishDiagnostics", uri |-> lastEvent.uri, diagnostics |-> <<FirstRangeDiagnostic(IdeError1)>>] >>

\* two full-buffer queries (ids "2" and "3") were sent for one document, the
\* change of the second cleared the diagnostics, and right after it the
\* failure answering query "2" was published for the document
C17_Witness ==
  /\ StaleFailureHandled
  /\ children[lastEvent.pid].answered = <<"2">>
  /\ Len(StdinLines(lastEvent.pid)) = 3
  /\ DecodeQuery(StdinLines(lastEvent.pid)[3]).query = "full-buffer"
  /\ documentState[lastEvent.uri] = [fstar_ide |-> lastEvent.pid, last_query_id |-> 3]
  /\ Len(outbox) >= 3
  /\ outbox[Len(outbox) - 2] = [method |-> "textDocument/publishDiagnostics", uri |-> lastEvent.uri, diagnostics |-> <<>>]
  /\ outbox[Len(outbox) - 1] = [method |-> "custom/statusClear", uri |-> lastEvent.uri]
  /\ Len(outbox[Len(outbox)].diagnostics) = 1

\* ------------------------------------------------------------ C18

\* a step in which a handler of the server ran: an open or a change (they
\* send), a close (the document leaves the manager) or a stdout delivery
HandlerStep == outbox' # outbox \/ documents' # documents \/ \E pid \in Pids : Len(children'[pid].stdout) < Len(children[pid].stdout)

\* C18: sessions of different documents are independent: a handler running for
\* document A (an event of A, or output of a subprocess spawned for A) leaves
\* the registry entry of every other URI and every subprocess spawned for
\* another URI as they were (no counter changed, nothing written, nothing
\* read), spawns for A only, and sends messages keyed to A's URI only.
C18_DocumentsAreIndependent ==
  [][HandlerStep =>
       LET A == lastEvent'.uri
       IN /\ \A pid \in Pids : Len(children'[pid].stdout) < Len(children[pid].stdout) => children[pid].uri = A
          /\ \A uri \in DOMAIN documentState : uri # A => (MapHas(documentState', uri) /\ documentState'[uri] = documentState[uri])
          /\ \A uri \in DOMAIN documentState' : uri # A => MapHas(documentState, uri)
          /\ \A pid \in Pids : children[pid].uri # A => children'[pid] = children[pid]
          /\ \A pid \in (1..Len(children')) \ Pids : children'[pid].uri = A
          /\ SubSeq(outbox', 1, Len(outbox)) = outbox
          /\ \A i \in (Len(outbox) + 1)..Len(outbox') : outbox'[i].uri = A]_vars

\* two documents have a session each, the subprocess of the second has
\* delivered output, and then output of the subprocess of the first was
\* handled and sent a message
C18_Witness ==
  /\ Len(children) = 2
  /\ children[1].uri # children[2].uri
  /\ MapHas(documentState, children[1].uri) /\ MapHas(documentState, children[2].uri)
  /\ children[2].routed # <<>>
  /\ lastEvent.op = "data"
  /\ lastEvent.pid = 1
  /\ Len(lastEvent.trace) >= 1
  /\ outbox[Len(outbox)].uri = children[1].uri

\* ------------------------------------------------------------ C19

\* a step in which the stdout listener of children[pid] ran
DataStep(pid) == pid \in Pids /\ Len(children'[pid].stdout) < Len(children[pid].stdout)

\* C19: handling subprocess output never changes the session registry: for
\* every chunk (whole lines or not, of every message kind, ending the server or
\* not) the registered URIs, each session's subprocess handle and each
\* session's last_query_id are as before, no subprocess is spawned, and nothing
\* is written to any subprocess.
C19_OutputLeavesRegistryAlone ==
  [][(\E pid \in Pids : DataStep(pid)) =>
       /\ documentState' = documentState
       /\ documentSettings' = documentSettings
       /\ Len(children') = Len(children)
       /\ \A pid \in Pids : children'[pid].stdin = children[pid].stdin /\ children'[pid].queries = children[pid].queries /\ children'[pid].uri = children[pid].uri
       /\ \A i \in 1..Len(lastEvent'.trace) : lastEvent'.trace[i].e \in {"sendDiagnostics", "sendStatusOk"}]_vars

\* a chunk of two lines, a failure with two errors among them, was handled for
\* a registered session whose counter stands at 2
C19_Witness ==
  /\ lastEvent.op = "data"
  /\ Len(lastRouted) = 2
  /\ \E i \in 1..2 : lastRouted[i].handler = "handleIdeFailure" /\ Len(lastRouted[i].r.response) = 2
  /\ MapHas(documentState, lastEvent.uri)
  /\ documentState[lastEvent.uri] = [fstar_ide |-> lastEvent.pid, last_query_id |-> 2]
  /\ Len(StdinLines(lastEvent.pid)) = 2

\* ------------------------------------------------------------ C20

\* the subprocess children[pid] is the one of the session registered for the
\* URI it was spawned for, and the document of that URI is open
IsCurrentSession(pid) ==
  /\ MapHas(documents, children[pid].uri)
  /\ MapHas(documentState, children[pid].uri)
  /\ documentState[children[pid].uri].fstar_ide = pid

\* C20: only the subprocess of the session currently registered for a URI
\* causes diagnostics or status notifications for it: output delivered from a
\* subprocess whose session was replaced by a re-open, or whose document was
\* closed, sends nothing on the editor connection.
C20_OnlyCurrentSessionHasEffects ==
  (lastEvent.op = "data" /\ ~IsCurrentSession(lastEvent.pid)) => lastEvent.trace = <<>>

====
